---- MODULE Spec2Model ----
(***************************************************************************)
(* Trade ingestion, bounded history and fan-out of the socket server.      *)
(*                                                                         *)
(* The repository holds three versions of the server:                      *)
(*   "v1"  src/src/server.ts lines 1-197    (capacity 30, per-origin       *)
(*         debounce, backfill awaited inside the connection handler)       *)
(*   "v2"  src/src/server.ts lines 199-450  (capacity 100, external stream *)
(*         merged into tradeBuffer, trades.json, backfill at startup)      *)
(*   "p0"  src/unnamed/part_000             (capacity 30, external stream  *)
(*         kept in transactionStore, backfill at startup)                  *)
(* The variable `variant` is fixed by Init and selects the version whose   *)
(* handlers run.  Node runs every callback to completion, so one action is *)
(* one callback (or one continuation after an await).                      *)
(***************************************************************************)
EXTENDS Integers, Sequences, FiniteSets, TLC

\* ------------------------------------------------------------ bounds
MaxTrades == 2      \* io.emit broadcasts per run
MaxTicks == 2       \* clock advances per run
NumSockets == 2     \* subscriber sockets that attach per run

\* ------------------------------------------------- program constants
Capacity30 == 30        \* tradeBuffer.slice(0, 30)
Capacity100 == 100      \* tradeBuffer.slice(0, 100)
BackfillSlice == 30     \* sortedLogs.slice(0, 30)
DebounceMs == 5000      \* now - last < 5000
ReconnectDelayMs == 3000
OcicatDecimals == 6
BnbDecimals == 18

Variants == {"v1", "v2", "p0"}
Sockets == 1..NumSockets
Procs == 0..NumSockets          \* 0: the startup backfill; s: socket s's handler
OriginList == << "10.0.0.1", "10.0.0.2" >>
Origins == { OriginList[i] : i \in 1..Len(OriginList) }
TickMs == DebounceMs \div 2       \* the clock is observed every 2500 ms
StartTime == 4 * DebounceMs     \* Date.now() is far above the debounce window

VARIABLES
    variant,            \* which version of the server runs
    tradeBuffer,        \* let tradeBuffer: Trade[]
    transactionStore,   \* p0: store/transactions.js
    tradesFile,         \* v2: trades.json, [exists, data]
    clientLastRequest,  \* v1: Record<string, number>
    now,                \* Date.now()
    ticks,              \* clock advances so far
    provider,           \* identity (generation) of the current WebSocketProvider
    wsState,            \* "open" | "closed": the current provider's websocket
    reconnectDue,       \* due time of the pending setTimeout, or -1
    sockPc,             \* per socket: "init" | "rejected" | "fetching" | "served"
    connected,          \* per socket: in the namespace (a recipient of io.emit)
    handshake,          \* per socket: [address, issued]
    inbox,              \* per socket: the messages delivered to the client
    fetchPc,            \* per backfill: "idle" | "awaitBlock" | "awaitLogs" | "done" | "failed"
    fetchStart,         \* per backfill: tradeBuffer when fetchInitialTrades was entered
    swapListeners,      \* providers whose contract has a Swap listener
    emitted,            \* history: the io.emit broadcasts, oldest first
    attachedAt,         \* history, per socket: Len(emitted) when it attached
    servedAt,           \* history, per socket: Len(emitted) when its snapshot was sent
    swapIn,             \* decoder runs: the raw event handed to the Swap callback
    swapHandled         \* decoder runs: how often the callback ran on swapIn

vars == << variant, tradeBuffer, transactionStore, tradesFile, clientLastRequest,
           now, ticks, provider, wsState, reconnectDue, sockPc, connected,
           handshake, inbox, fetchPc, fetchStart, swapListeners, emitted,
           attachedAt, servedAt, swapIn, swapHandled >>

histVars == << tradeBuffer, transactionStore, tradesFile >>
clockVars == << now, ticks >>
upstreamVars == << provider, wsState, reconnectDue, swapListeners >>
fetchVars == << fetchPc, fetchStart >>
decoderVars == << swapIn, swapHandled >>

\* ------------------------------------------------------------ helpers
Min(a, b) == IF a < b THEN a ELSE b

\* Array.prototype.slice(0, n)
Slice(arr, n) == SubSeq(arr, 1, Min(Len(arr), n))

\* ethers.formatUnits(value, decimals): the decimal numeral of value / 10^decimals,
\* kept as the pair (units, decimals).
formatUnits(value, decimals) == [units |-> value, decimals |-> decimals]

\* parseFloat of such a numeral: the nearest double, which is 0 only for the
\* numeral 0 (the smallest non-zero numeral here, 1e-18, is a normal double).
parseFloat(numeral) == [units |-> numeral.units, decimals |-> numeral.decimals]

\* a plain JS number n (external amounts)
Num(n) == [units |-> n, decimals |-> 0]

\* x === 0
IsZero(x) == x.units = 0

\* ------------------------------------------------------------- inputs
\* Raw Swap events as the contract listener receives them: every combination of
\* zero / non-zero legs.
Legs == 0..1
EventLogs == { [present |-> TRUE, transactionHash |-> 1] }
RawEvents == [ sender : {"0xsender"}, amount0In : Legs, amount1In : Legs,
               amount0Out : Legs, amount1Out : Legs, to : {"0xto"},
               log : EventLogs ]

\* a log as rpcProvider.getLogs returns it
SwapLog(block, index, hash, a0In, a1In, a0Out, a1Out, decodable) ==
    [ blockNumber |-> block, transactionIndex |-> index, transactionHash |-> hash,
      decodable |-> decodable, sender |-> "0xsender", to |-> "0xto",
      amount0In |-> a0In, amount1In |-> a1In, amount0Out |-> a0Out, amount1Out |-> a1Out ]

\* the answers of getLogs that are tried: none; a buy and a later sell, the buy
\* being the transaction the live listener also sees; a log whose data does not
\* decode; and more logs than the backfill keeps.
ManyLogs == [ i \in 1..(BackfillSlice + 1) |->
                SwapLog(10 + (i \div 2), i % 2, 100 + i, 2, 0, 0, 3, TRUE) ]
LogAnswers == { << >>,
                << SwapLog(5, 1, 1, 2, 0, 0, 3, TRUE), SwapLog(7, 0, 2, 0, 3, 2, 0, TRUE) >>,
                << SwapLog(5, 1, 1, 2, 0, 0, 3, TRUE), SwapLog(6, 0, 3, 0, 0, 0, 0, FALSE) >>,
                ManyLogs }

\* "transactions:new" notifications: `present` holds the fields that are not nullish
FullTx == [ present |-> {"hash", "wallet", "amountInToken", "amountInChainCurrency",
                         "type", "tokenDetails", "ticker", "image"},
            hash |-> 7, wallet |-> "0xwallet", amountInToken |-> 5,
            amountInChainCurrency |-> 1, type |-> "sell",
            ticker |-> "TKN", image |-> "/tkn.png" ]
BareTx == [ FullTx EXCEPT !.present = {} ]
ExternalTxs == { FullTx, BareTx }

\* ------------------------------------------------------------ decoder
UnknownHash == 0        \* the string "unknown"

\* event?.log?.transactionHash ?? "unknown"
EventHash(raw) == IF raw.log.present THEN raw.log.transactionHash ELSE UnknownHash

\* mutant: the callback without `if (ocicatAmount === 0 || bnbAmount === 0) return`
DecodeSwap_NoZeroCheck(raw) ==
    LET ocicatRaw == IF raw.amount1Out > 0 THEN raw.amount1Out ELSE raw.amount1In
        bnbRaw == IF raw.amount1Out > 0 THEN raw.amount0In ELSE raw.amount0Out
    IN  [ accepted |-> raw.amount1Out > 0 \/ raw.amount1In > 0,
          trade |-> [ hash |-> EventHash(raw), buyer |-> raw.sender, seller |-> raw.to,
                      amount |-> parseFloat(formatUnits(ocicatRaw, OcicatDecimals)),
                      bnbAmount |-> parseFloat(formatUnits(bnbRaw, BnbDecimals)),
                      action |-> IF raw.amount1Out > 0 THEN "buy" ELSE "sell" ] ]

\* mutant: the sell branch is tested before the buy branch
DecodeSwap_SellFirst(raw) ==
    LET sell == raw.amount1In > 0
        ocicatRaw == IF sell THEN raw.amount1In ELSE raw.amount1Out
        bnbRaw == IF sell THEN raw.amount0Out ELSE raw.amount0In
    IN  [ accepted |-> (raw.amount1Out > 0 \/ raw.amount1In > 0)
                         /\ ocicatRaw # 0 /\ bnbRaw # 0,
          trade |-> [ hash |-> EventHash(raw), buyer |-> raw.sender, seller |-> raw.to,
                      amount |-> parseFloat(formatUnits(ocicatRaw, OcicatDecimals)),
                      bnbAmount |-> parseFloat(formatUnits(bnbRaw, BnbDecimals)),
                      action |-> IF sell THEN "sell" ELSE "buy" ] ]

\* The Swap callback up to the call of emitNewTrade (v1: server.ts 51-88; the two
\* other versions repeat it): [accepted, trade].  The field `time` of a Trade
\* (new Date().toISOString()) is written and never read by the server; the model
\* leaves it out of the records.
DecodeSwap(raw) ==
    LET amount0InBN == raw.amount0In
        amount1InBN == raw.amount1In
        amount0OutBN == raw.amount0Out
        amount1OutBN == raw.amount1Out
        moved == amount1OutBN > 0 \/ amount1InBN > 0
        ocicatRaw == IF amount1OutBN > 0 THEN amount1OutBN ELSE amount1InBN
        bnbRaw == IF amount1OutBN > 0 THEN amount0InBN ELSE amount0OutBN
        action == IF amount1OutBN > 0 THEN "buy" ELSE "sell"
        ocicatAmount == parseFloat(formatUnits(ocicatRaw, OcicatDecimals))
        bnbAmount == parseFloat(formatUnits(bnbRaw, BnbDecimals))
    IN  [ accepted |-> moved /\ ~(IsZero(ocicatAmount) \/ IsZero(bnbAmount)),
          trade |-> [ hash |-> EventHash(raw),
                      buyer |-> raw.sender, seller |-> raw.to,
                      amount |-> ocicatAmount, bnbAmount |-> bnbAmount,
                      action |-> action ] ]

\* v2 adds source: "ocicat" to the literal (server.ts 350-359)
DecodeSwap_v2(raw) ==
    LET d == DecodeSwap(raw)
    IN  [ accepted |-> d.accepted,
          trade |-> [ hash |-> d.trade.hash,
                      buyer |-> d.trade.buyer, seller |-> d.trade.seller,
                      amount |-> d.trade.amount, bnbAmount |-> d.trade.bnbAmount,
                      action |-> d.trade.action, source |-> "ocicat" ] ]

\* ------------------------------------------------------------ history
\* mutant: unshift without the slice
Unshift30_NoTruncate(buf, trade) == << trade >> \o buf

\* mutant: slice(-30) in place of slice(0, 30)
Unshift30_SliceTail(buf, trade) ==
    LET grown == << trade >> \o buf
    IN  IF Len(grown) > Capacity30
        THEN SubSeq(grown, Len(grown) - Capacity30 + 1, Len(grown)) ELSE grown

\* tradeBuffer.unshift(trade); if (tradeBuffer.length > 30) tradeBuffer = tradeBuffer.slice(0, 30)
Unshift30(buf, trade) ==
    LET grown == << trade >> \o buf
    IN  IF Len(grown) > Capacity30 THEN Slice(grown, Capacity30) ELSE grown

\* tradeBuffer.unshift(trade); if (tradeBuffer.length > 100) tradeBuffer = tradeBuffer.slice(0, 100)
Unshift100(buf, trade) ==
    LET grown == << trade >> \o buf
    IN  IF Len(grown) > Capacity100 THEN Slice(grown, Capacity100) ELSE grown

\* transactionStore.unshift(tx); if (length > 100) transactionStore.splice(100)
UnshiftStore(store, tx) ==
    LET grown == << tx >> \o store
    IN  IF Len(grown) > Capacity100 THEN SubSeq(grown, 1, Capacity100) ELSE grown

\* ----------------------------------------------------------- backfill
\* the comparator of logs.sort: negative puts a first
CompareLogs(a, b) ==
    IF a.blockNumber # b.blockNumber
    THEN b.blockNumber - a.blockNumber
    ELSE b.transactionIndex - a.transactionIndex

\* x placed behind every element that does not sort after it (Array.prototype.sort is stable)
RECURSIVE InsertSorted(_, _)
InsertSorted(x, sorted) ==
    IF sorted = << >> THEN << x >>
    ELSE IF CompareLogs(Head(sorted), x) <= 0
         THEN << Head(sorted) >> \o InsertSorted(x, Tail(sorted))
         ELSE << x >> \o sorted

RECURSIVE SortFrom(_, _)
SortFrom(logs, sorted) ==
    IF logs = << >> THEN sorted
    ELSE SortFrom(Tail(logs), InsertSorted(Head(logs), sorted))

\* logs.sort((a, b) => ...)
SortLogs(logs) == SortFrom(logs, << >>)

\* the map callback of fetchInitialTrades (v1: server.ts 128-141; p0 repeats it)
DecodeLog(log) ==
    LET amountOutBN == log.amount1Out
        amountInBN == log.amount0In
    IN  [ hash |-> log.transactionHash,
          buyer |-> log.sender, seller |-> log.to,
          amount |-> parseFloat(formatUnits(amountOutBN, OcicatDecimals)),
          bnbAmount |-> parseFloat(formatUnits(amountInBN, BnbDecimals)),
          action |-> IF amountOutBN > 0 THEN "buy" ELSE "sell" ]

\* iface.decodeEventLog throws on some log of the slice
DecodeThrows(logs) == \E i \in 1..Len(logs) : ~logs[i].decodable

\* mutant: the trades decoded before the throw are written (a loop that pushes
\* into tradeBuffer in place of the single assignment)
Backfill30_Partial(buf, logs) ==
    LET kept == Slice(SortLogs(logs), BackfillSlice)
        good == { n \in 0..Len(kept) : \A i \in 1..n : kept[i].decodable }
        upTo == CHOOSE n \in good : \A m \in good : m <= n
    IN  [ i \in 1..upTo |-> DecodeLog(kept[i]) ]

\* v1 / p0: tradeBuffer = sortedLogs.slice(0, 30).map(...) inside the try block:
\* a throw in the callback leaves the assignment undone.
Backfill30(buf, logs) ==
    LET kept == Slice(SortLogs(logs), BackfillSlice)
    IN  IF DecodeThrows(kept) THEN buf
        ELSE [ i \in 1..Len(kept) |-> DecodeLog(kept[i]) ]

\* mutant: the map callback without the read of initialTrades.length
MapThrows_v2_Never(kept) == FALSE

\* v2: the map callback reads initialTrades.length while initialTrades is still
\* being initialised (server.ts 396), which throws a ReferenceError on the first
\* log; only an empty slice reaches the merge of line 411.
MapThrows_v2(kept) == Len(kept) > 0

\* v2: the literal of server.ts 399-408
DecodeLog_v2(log) ==
    LET t == DecodeLog(log)
    IN  [ hash |-> t.hash, buyer |-> t.buyer, seller |-> t.seller,
          amount |-> t.amount, bnbAmount |-> t.bnbAmount, action |-> t.action,
          source |-> "ocicat" ]

\* v2: tradeBuffer = [...initialTrades, ...tradeBuffer].slice(0, 100), unless the
\* map threw before it
Backfill100(buf, logs) ==
    LET kept == Slice(SortLogs(logs), BackfillSlice)
        initialTrades == [ i \in 1..Len(kept) |-> DecodeLog_v2(kept[i]) ]
    IN  IF MapThrows_v2(kept) \/ DecodeThrows(kept) THEN buf
        ELSE Slice(initialTrades \o buf, Capacity100)

\* whether the try block of fetchInitialTrades ran to its end
BackfillThrows(logs) ==
    LET kept == Slice(SortLogs(logs), BackfillSlice)
    IN  IF variant = "v2" THEN MapThrows_v2(kept) \/ DecodeThrows(kept)
        ELSE DecodeThrows(kept)

\* -------------------------------------------------------- persistence
\* trades.json as an earlier run of v2 left it: absent, or a full buffer
PersistedTrade(i) ==
    [ hash |-> 200 + i, buyer |-> "0xsender", seller |-> "0xto",
      amount |-> parseFloat(formatUnits(3, OcicatDecimals)),
      bnbAmount |-> parseFloat(formatUnits(2, BnbDecimals)),
      action |-> "buy", source |-> "ocicat", ticker |-> "OCICAT", image |-> "/cat_bg.jpg" ]
PersistedFiles ==
    { [ exists |-> FALSE, data |-> << >> ],
      [ exists |-> TRUE, data |-> [ i \in 1..Capacity100 |-> PersistedTrade(i) ] ] }

\* The file holds JSON.stringify(trades).  Every value of a Trade is a string or
\* a finite number (the amounts are parseFloat of a decimal numeral, or come out
\* of the JSON of the external stream), which JSON.parse gives back unchanged, so
\* the text is kept as the array it denotes.
\* fs.existsSync ? JSON.parse(fs.readFileSync) : []
loadTradesFromFile(file) == IF file.exists THEN file.data ELSE << >>

\* fs.writeFileSync(tradeFilePath, JSON.stringify(trades))
saveTradesToFile(trades) == [ exists |-> TRUE, data |-> trades ]

\* ------------------------------------------------------------- fan-out
\* mutant: the broadcast stops after the first socket
Recipients_FirstOnly ==
    { s \in Sockets : connected[s] /\ \A r \in Sockets : connected[r] => s <= r }

\* the sockets io.emit reaches
Recipients == { s \in Sockets : connected[s] }

Message(event, array, data) == [ event |-> event, array |-> array, data |-> data ]

\* io.emit(event, payload): one message to every socket of the namespace
Broadcast(msg) ==
    /\ inbox' = [ s \in Sockets |->
                    IF s \in Recipients THEN Append(inbox[s], msg) ELSE inbox[s] ]
    /\ emitted' = Append(emitted, msg)

\* socket.emit(event, payload) on a socket that may have disconnected meanwhile
SocketEmit(box, s, msg) ==
    [ box EXCEPT ![s] = IF connected[s] THEN Append(box[s], msg) ELSE box[s] ]

\* --------------------------------------------------------------- Init
\* the state once the module has loaded
InitServer ==
    /\ variant \in Variants
    /\ tradesFile \in (IF variant = "v2" THEN PersistedFiles
                       ELSE { [ exists |-> FALSE, data |-> << >> ] })
    /\ tradeBuffer = (IF variant = "v2" THEN loadTradesFromFile(tradesFile) ELSE << >>)
    /\ transactionStore = << >>
    /\ clientLastRequest = << >>
    /\ now = StartTime
    /\ ticks = 0
    /\ provider = 0
    /\ wsState = "open"
    /\ reconnectDue = -1
    /\ swapListeners = {0}
    /\ sockPc = [ s \in Sockets |-> "init" ]
    /\ connected = [ s \in Sockets |-> FALSE ]
    /\ handshake = [ s \in Sockets |-> [ address |-> "", issued |-> 0 ] ]
    /\ inbox = [ s \in Sockets |-> << >> ]
    /\ fetchPc = [ p \in Procs |-> IF p = 0 /\ variant \in {"v2", "p0"}
                                   THEN "awaitBlock" ELSE "idle" ]
    /\ fetchStart = [ p \in Procs |-> IF p = 0 THEN tradeBuffer ELSE << >> ]
    /\ emitted = << >>
    /\ attachedAt = [ s \in Sockets |-> 0 ]
    /\ servedAt = [ s \in Sockets |-> 0 ]
    /\ swapHandled = 0

AllZeroEvent ==
    [ sender |-> "0xsender", amount0In |-> 0, amount1In |-> 0, amount0Out |-> 0,
      amount1Out |-> 0, to |-> "0xto", log |-> [present |-> TRUE, transactionHash |-> 1] ]

Init == InitServer /\ swapIn = AllZeroEvent

\* decoder runs: any raw event is the one handed to the callback
InitDecoder == InitServer /\ swapIn \in RawEvents

\* ------------------------------------------------- subscriber attach
\* clientLastRequest[ip] || 0
LastRequest(ip) == IF ip \in DOMAIN clientLastRequest THEN clientLastRequest[ip] ELSE 0

\* now - (clientLastRequest[ip] || 0) < 5000
TooSoon(ip, time) == time - LastRequest(ip) < DebounceMs

\* sockets attach in the order of their numbers
NextToAttach(s) == sockPc[s] = "init" /\ \A r \in Sockets : r < s => sockPc[r] # "init"

\* and origins appear in the order of OriginList (origins are interchangeable)
Seen == { handshake[r].address : r \in { q \in Sockets : sockPc[q] # "init" } }
NextOrigin(ip) ==
    \E i \in 1..Len(OriginList) :
        /\ OriginList[i] = ip
        /\ \A j \in 1..(i - 1) : OriginList[j] \in Seen

\* the snapshot message of each version
Snapshot_v1(buf) == Message("trades", TRUE, buf)
Snapshot_v2(buf) == Message("transaction:history", TRUE, buf)
Snapshot_p0(store) == Message("transaction:history", TRUE, store)

\* v1: io.on("connection") up to its first await (or to its end)
Connection_v1(s, ip) ==
    /\ variant = "v1"
    /\ NextToAttach(s)
    /\ NextOrigin(ip)
    /\ handshake' = [ handshake EXCEPT ![s] = [ address |-> ip, issued |-> now ] ]
    /\ attachedAt' = [ attachedAt EXCEPT ![s] = Len(emitted) ]
    /\ IF TooSoon(ip, now)
       THEN /\ sockPc' = [ sockPc EXCEPT ![s] = "rejected" ]
            /\ UNCHANGED << clientLastRequest, connected, inbox, fetchVars, servedAt >>
       ELSE /\ clientLastRequest' =
                  [ a \in DOMAIN clientLastRequest \cup {ip} |->
                      IF a = ip THEN now ELSE clientLastRequest[a] ]
            /\ connected' = [ connected EXCEPT ![s] = TRUE ]
            /\ IF Len(tradeBuffer) = 0
               THEN /\ sockPc' = [ sockPc EXCEPT ![s] = "fetching" ]
                    /\ fetchPc' = [ fetchPc EXCEPT ![s] = "awaitBlock" ]
                    /\ fetchStart' = [ fetchStart EXCEPT ![s] = tradeBuffer ]
                    /\ UNCHANGED << inbox, servedAt >>
               ELSE /\ sockPc' = [ sockPc EXCEPT ![s] = "served" ]
                    /\ inbox' = [ inbox EXCEPT ![s] = Append(@, Snapshot_v1(tradeBuffer)) ]
                    /\ servedAt' = [ servedAt EXCEPT ![s] = Len(emitted) ]
                    /\ UNCHANGED fetchVars
    /\ UNCHANGED << variant, histVars, clockVars, upstreamVars, emitted, decoderVars >>

\* v2: io.on("connection")
Connection_v2(s, ip) ==
    /\ variant = "v2"
    /\ NextToAttach(s)
    /\ NextOrigin(ip)
    /\ handshake' = [ handshake EXCEPT ![s] = [ address |-> ip, issued |-> now ] ]
    /\ attachedAt' = [ attachedAt EXCEPT ![s] = Len(emitted) ]
    /\ connected' = [ connected EXCEPT ![s] = TRUE ]
    /\ sockPc' = [ sockPc EXCEPT ![s] = "served" ]
    /\ inbox' = [ inbox EXCEPT ![s] = Append(@, Snapshot_v2(tradeBuffer)) ]
    /\ servedAt' = [ servedAt EXCEPT ![s] = Len(emitted) ]
    /\ UNCHANGED << variant, histVars, clientLastRequest, clockVars, upstreamVars,
                    fetchVars, emitted, decoderVars >>

\* p0: io.on("connection")
Connection_p0(s, ip) ==
    /\ variant = "p0"
    /\ NextToAttach(s)
    /\ NextOrigin(ip)
    /\ handshake' = [ handshake EXCEPT ![s] = [ address |-> ip, issued |-> now ] ]
    /\ attachedAt' = [ attachedAt EXCEPT ![s] = Len(emitted) ]
    /\ connected' = [ connected EXCEPT ![s] = TRUE ]
    /\ sockPc' = [ sockPc EXCEPT ![s] = "served" ]
    /\ inbox' = [ inbox EXCEPT ![s] = Append(@, Snapshot_p0(transactionStore)) ]
    /\ servedAt' = [ servedAt EXCEPT ![s] = Len(emitted) ]
    /\ UNCHANGED << variant, histVars, clientLastRequest, clockVars, upstreamVars,
                    fetchVars, emitted, decoderVars >>

\* the transport of socket s closes
Disconnect(s) ==
    /\ connected[s]
    /\ connected' = [ connected EXCEPT ![s] = FALSE ]
    /\ UNCHANGED << variant, histVars, clientLastRequest, clockVars, upstreamVars,
                    sockPc, handshake, inbox, fetchVars, emitted, attachedAt,
                    servedAt, decoderVars >>

\* ----------------------------------------------------------- backfill
\* v1: the connection handler of socket p resumes behind `await fetchInitialTrades()`
\* in the same turn of the event loop: socket.emit("trades", tradeBuffer)
Resume(p, buf) ==
    IF p \in Sockets
    THEN /\ sockPc' = [ sockPc EXCEPT ![p] = "served" ]
         /\ inbox' = SocketEmit(inbox, p, Snapshot_v1(buf))
         /\ servedAt' = [ servedAt EXCEPT ![p] = Len(emitted) ]
    ELSE UNCHANGED << sockPc, inbox, servedAt >>

\* await rpcProvider.getBlockNumber() resolves
GetBlockNumberResolves(p) ==
    /\ fetchPc[p] = "awaitBlock"
    /\ fetchPc' = [ fetchPc EXCEPT ![p] = "awaitLogs" ]
    /\ UNCHANGED << variant, histVars, clientLastRequest, clockVars, upstreamVars,
                    sockPc, connected, handshake, inbox, fetchStart, emitted,
                    attachedAt, servedAt, decoderVars >>

\* await rpcProvider.getBlockNumber() rejects: the catch block logs
GetBlockNumberRejects(p) ==
    /\ fetchPc[p] = "awaitBlock"
    /\ fetchPc' = [ fetchPc EXCEPT ![p] = "failed" ]
    /\ Resume(p, tradeBuffer)
    /\ UNCHANGED << variant, histVars, clientLastRequest, clockVars, upstreamVars,
                    connected, handshake, fetchStart, emitted, attachedAt,
                    decoderVars >>

\* await rpcProvider.getLogs(...) rejects: the catch block logs
GetLogsRejects(p) ==
    /\ fetchPc[p] = "awaitLogs"
    /\ fetchPc' = [ fetchPc EXCEPT ![p] = "failed" ]
    /\ Resume(p, tradeBuffer)
    /\ UNCHANGED << variant, histVars, clientLastRequest, clockVars, upstreamVars,
                    connected, handshake, fetchStart, emitted, attachedAt,
                    decoderVars >>

\* await rpcProvider.getLogs(...) resolves: sort, slice, map, assign (and save in v2)
GetLogsResolves(p, logs) ==
    /\ fetchPc[p] = "awaitLogs"
    /\ fetchPc' = [ fetchPc EXCEPT ![p] =
                      IF BackfillThrows(logs) THEN "failed" ELSE "done" ]
    /\ tradeBuffer' = IF variant = "v2" THEN Backfill100(tradeBuffer, logs)
                      ELSE Backfill30(tradeBuffer, logs)
    /\ tradesFile' = IF variant = "v2" /\ ~BackfillThrows(logs)
                     THEN saveTradesToFile(tradeBuffer') ELSE tradesFile
    /\ Resume(p, tradeBuffer')
    /\ UNCHANGED << variant, transactionStore, clientLastRequest, clockVars,
                    upstreamVars, connected, handshake, fetchStart, emitted,
                    attachedAt, decoderVars >>

\* ------------------------------------------------------------- ingest
\* v1 emitNewTrade
emitNewTrade_v1(trade) ==
    /\ tradeBuffer' = Unshift30(tradeBuffer, trade)
    /\ Broadcast(Message("trades", FALSE, << trade >>))
    /\ UNCHANGED << transactionStore, tradesFile >>

\* p0 emitNewTrade
emitNewTrade_p0(trade) ==
    /\ tradeBuffer' = Unshift30(tradeBuffer, trade)
    /\ Broadcast(Message("trades", FALSE, << trade >>))
    /\ UNCHANGED << transactionStore, tradesFile >>

\* v2: trade.source = "ocicat"; trade.ticker = "OCICAT"; trade.image = "/cat_bg.jpg"
Tagged(trade) ==
    [ hash |-> trade.hash, buyer |-> trade.buyer,
      seller |-> trade.seller, amount |-> trade.amount, bnbAmount |-> trade.bnbAmount,
      action |-> trade.action, source |-> "ocicat", ticker |-> "OCICAT",
      image |-> "/cat_bg.jpg" ]

\* mutant: emitNewTrade without saveTradesToFile(tradeBuffer)
emitNewTrade_v2_NoSave(trade) ==
    /\ tradeBuffer' = Unshift100(tradeBuffer, Tagged(trade))
    /\ Broadcast(Message("trades", FALSE, << Tagged(trade) >>))
    /\ UNCHANGED << transactionStore, tradesFile >>

\* v2 emitNewTrade
emitNewTrade_v2(trade) ==
    /\ tradeBuffer' = Unshift100(tradeBuffer, Tagged(trade))
    /\ tradesFile' = saveTradesToFile(tradeBuffer')
    /\ Broadcast(Message("trades", FALSE, << Tagged(trade) >>))
    /\ UNCHANGED transactionStore

\* mutant: a rejected event removes the listener (contract.off) before returning
SwapHandler_TearsDown(raw) ==
    /\ wsState = "open"
    /\ provider \in swapListeners
    /\ Len(emitted) < MaxTrades
    /\ LET d == IF variant = "v2" THEN DecodeSwap_v2(raw) ELSE DecodeSwap(raw)
       IN  IF ~d.accepted
           THEN /\ swapListeners' = swapListeners \ {provider}
                /\ UNCHANGED << histVars, inbox, emitted >>
           ELSE /\ CASE variant = "v1" -> emitNewTrade_v1(d.trade)
                     [] variant = "v2" -> emitNewTrade_v2(d.trade)
                     [] OTHER -> emitNewTrade_p0(d.trade)
                /\ UNCHANGED swapListeners
    /\ UNCHANGED << variant, clientLastRequest, clockVars, provider, wsState,
                    reconnectDue, sockPc, connected, handshake, fetchVars,
                    attachedAt, servedAt >>

\* the Swap callback of the contract of the live provider, handed `raw`
SwapHandler(raw) ==
    /\ wsState = "open"
    /\ provider \in swapListeners
    /\ Len(emitted) < MaxTrades
    /\ LET d == IF variant = "v2" THEN DecodeSwap_v2(raw) ELSE DecodeSwap(raw)
       IN  IF ~d.accepted
           THEN UNCHANGED << histVars, inbox, emitted >>
           ELSE CASE variant = "v1" -> emitNewTrade_v1(d.trade)
                  [] variant = "v2" -> emitNewTrade_v2(d.trade)
                  [] OTHER -> emitNewTrade_p0(d.trade)
    /\ UNCHANGED << variant, clientLastRequest, clockVars, upstreamVars, sockPc,
                    connected, handshake, fetchVars, attachedAt, servedAt >>

\* a Swap event arrives
SwapEvent(raw) == SwapHandler(raw) /\ UNCHANGED decoderVars

\* decoder runs: the callback is handed swapIn
ListenerRuns ==
    /\ swapHandled < MaxTrades
    /\ SwapHandler(swapIn)
    /\ swapHandled' = swapHandled + 1
    /\ UNCHANGED swapIn

\* listener runs: the callback is handed the next raw event of the connection
ListenerRunsOn(raw) ==
    /\ swapHandled < MaxTrades
    /\ SwapHandler(raw)
    /\ swapIn' = raw
    /\ swapHandled' = swapHandled + 1

\* tx.field ?? fallback
Coalesce(tx, field, value, fallback) == IF field \in tx.present THEN value ELSE fallback

\* v2: the trade literal of externalSocket.on("transactions:new")
ExternalTrade(tx) ==
    [ hash |-> Coalesce(tx, "hash", tx.hash, UnknownHash),
      buyer |-> Coalesce(tx, "wallet", tx.wallet, "unknown"),
      seller |-> "",
      amount |-> Num(Coalesce(tx, "amountInToken", tx.amountInToken, 0)),
      bnbAmount |-> Num(Coalesce(tx, "amountInChainCurrency", tx.amountInChainCurrency, 0)),
      action |-> Coalesce(tx, "type", tx.type, "buy"),
      source |-> "external",
      ticker |-> IF "tokenDetails" \in tx.present
                 THEN Coalesce(tx, "ticker", tx.ticker, "Unknown") ELSE "Unknown",
      image |-> IF "tokenDetails" \in tx.present
                THEN Coalesce(tx, "image", tx.image, "/default_token.png")
                ELSE "/default_token.png" ]

\* v2: externalSocket.on("transactions:new")
ExternalTx_v2(tx) ==
    /\ variant = "v2"
    /\ Len(emitted) < MaxTrades
    /\ tradeBuffer' = Unshift100(tradeBuffer, ExternalTrade(tx))
    /\ tradesFile' = saveTradesToFile(tradeBuffer')
    /\ Broadcast(Message("transaction:new", FALSE, << ExternalTrade(tx) >>))
    /\ UNCHANGED << variant, transactionStore, clientLastRequest, clockVars,
                    upstreamVars, sockPc, connected, handshake, fetchVars,
                    attachedAt, servedAt, decoderVars >>

\* p0: externalSocket.on("transactions:new")
ExternalTx_p0(tx) ==
    /\ variant = "p0"
    /\ Len(emitted) < MaxTrades
    /\ transactionStore' = UnshiftStore(transactionStore, tx)
    /\ Broadcast(Message("transaction:new", FALSE, << tx >>))
    /\ UNCHANGED << variant, tradeBuffer, tradesFile, clientLastRequest, clockVars,
                    upstreamVars, sockPc, connected, handshake, fetchVars,
                    attachedAt, servedAt, decoderVars >>

\* ----------------------------------------------------------- upstream
\* (provider.websocket as any).on("close", ...) is called once, at load, on the
\* websocket of the first provider
HasCloseHandler(p) == p = 0

\* the websocket of the current provider closes
WsClose ==
    /\ wsState = "open"
    /\ wsState' = "closed"
    /\ reconnectDue' = IF HasCloseHandler(provider) THEN now + ReconnectDelayMs
                       ELSE reconnectDue
    /\ UNCHANGED << variant, histVars, clientLastRequest, clockVars, provider,
                    swapListeners, sockPc, connected, handshake, inbox, fetchVars,
                    emitted, attachedAt, servedAt, decoderVars >>

\* the setTimeout callback: a new provider, a new contract, attachSwapListener
Reconnect ==
    /\ reconnectDue >= 0
    /\ now >= reconnectDue
    /\ provider' = provider + 1
    /\ wsState' = "open"
    /\ swapListeners' = swapListeners \cup {provider'}
    /\ reconnectDue' = -1
    /\ UNCHANGED << variant, histVars, clientLastRequest, clockVars, sockPc,
                    connected, handshake, inbox, fetchVars, emitted, attachedAt,
                    servedAt, decoderVars >>

\* time passes
Tick ==
    /\ ticks < MaxTicks \/ (reconnectDue >= 0 /\ now < reconnectDue)
    /\ now' = now + TickMs
    /\ ticks' = IF ticks < MaxTicks THEN ticks + 1 ELSE ticks
    /\ UNCHANGED << variant, histVars, clientLastRequest, upstreamVars, sockPc,
                    connected, handshake, inbox, fetchVars, emitted, attachedAt,
                    servedAt, decoderVars >>

\* --------------------------------------------------------------- Next
\* subscribers, backfill and ingest
NextServe ==
    \/ \E s \in Sockets, ip \in Origins : Connection_v1(s, ip)
    \/ \E s \in Sockets, ip \in Origins : Connection_v2(s, ip)
    \/ \E s \in Sockets, ip \in Origins : Connection_p0(s, ip)
    \/ \E s \in Sockets : Disconnect(s)
    \/ \E p \in Procs : GetBlockNumberResolves(p)
    \/ \E p \in Procs : GetBlockNumberRejects(p)
    \/ \E p \in Procs : GetLogsRejects(p)
    \/ \E p \in Procs, logs \in LogAnswers : GetLogsResolves(p, logs)
    \/ \E raw \in RawEvents : SwapEvent(raw)
    \/ \E tx \in ExternalTxs : ExternalTx_v2(tx)
    \/ \E tx \in ExternalTxs : ExternalTx_p0(tx)

\* the life cycle of the upstream provider, and the trades it delivers
NextUpstream ==
    \/ \E raw \in RawEvents : SwapEvent(raw)
    \/ WsClose
    \/ Reconnect
    \/ Tick

Next == NextServe \/ NextUpstream

\* the whole server
Spec == Init /\ [][Next]_vars

\* the server while the first provider stays connected
ServeSpec == Init /\ [][NextServe]_vars

\* the server without subscribers, backfill answers and external transactions
UpstreamSpec == Init /\ [][NextUpstream]_vars

\* the Swap callback alone, on every raw event
NextDecoder == ListenerRuns
DecoderSpec == InitDecoder /\ [][NextDecoder]_vars

\* the Swap callback on every sequence of raw events of one connection
NextListener == \E raw \in RawEvents : ListenerRunsOn(raw)
ListenerSpec == Init /\ [][NextListener]_vars

\* setTimeout callbacks run once due, and time does not stop
FairUpstreamSpec == UpstreamSpec /\ WF_vars(Reconnect) /\ WF_vars(Tick)

\* ============================================================= claims
Capacity(v) == IF v = "v2" THEN Capacity100 ELSE Capacity30
Last(seq) == seq[Len(seq)]
Range(seq) == { seq[i] : i \in 1..Len(seq) }

\* this step is an io.emit broadcast
Published == emitted' # emitted

\* this step inserts the broadcast trade into tradeBuffer (in p0 the external
\* stream goes to transactionStore)
InsertsIntoHistory == Published /\ (variant # "p0" \/ Last(emitted').event = "trades")

\* C1: in every reachable state the length of tradeBuffer is at most the
\* capacity of the version: 30 (v1, p0) or 100 (v2).
C1_HistoryBounded == Len(tradeBuffer) <= Capacity(variant)

\* a live trade was inserted into a buffer the backfill had filled to capacity
C1_Witness ==
    /\ variant = "v1"
    /\ Len(tradeBuffer) = Capacity30
    /\ emitted # << >>
    /\ Head(tradeBuffer) = Last(emitted).data[1]
    /\ tradeBuffer[Capacity30].hash > 100

\* C2: no trade of the history has a token amount of 0 or a base amount of 0.
C2_NoZeroAmountInHistory ==
    \A i \in 1..Len(tradeBuffer) :
        ~IsZero(tradeBuffer[i].amount) /\ ~IsZero(tradeBuffer[i].bnbAmount)

\* C8: inserting trade t into history h of capacity C yields t followed by the
\* first min(Len(h), C - 1) entries of h, in their order.
C8_InsertFrontEvictTail ==
    [][ InsertsIntoHistory =>
          tradeBuffer' = << Last(emitted').data[1] >>
                           \o SubSeq(tradeBuffer, 1,
                                     Min(Len(tradeBuffer), Capacity(variant) - 1)) ]_vars

\* p0: a live trade went in front of a full backfilled buffer, whose tail was dropped
C8_Witness ==
    /\ variant = "p0"
    /\ Len(tradeBuffer) = Capacity30
    /\ emitted # << >>
    /\ Last(emitted).event = "trades"
    /\ Head(tradeBuffer) = Last(emitted).data[1]
    /\ tradeBuffer[2].hash > 100

BothOutZero(raw) == raw.amount0Out = 0 /\ raw.amount1Out = 0
BothInZero(raw) == raw.amount0In = 0 /\ raw.amount1In = 0

\* C10: once the Swap callback has run on a raw event whose two out legs are
\* zero, or whose two in legs are zero, nothing was inserted into the history
\* and nothing was published.
C10_ZeroLegsProduceNoTrade ==
    (swapHandled > 0 /\ (BothOutZero(swapIn) \/ BothInZero(swapIn))) =>
        /\ emitted = << >>
        /\ tradeBuffer = fetchStart[0]
        /\ \A s \in Sockets : inbox[s] = << >>

\* the callback ran on a sell-shaped event (token in, base in) with no out leg
C10_Witness ==
    /\ swapHandled > 0
    /\ BothOutZero(swapIn)
    /\ swapIn.amount1In > 0
    /\ swapIn.amount0In > 0
    /\ emitted = << >>

\* C3: every closure of the upstream connection, also of a connection that a
\* reconnect created, is eventually followed by a new connection whose contract
\* has a Swap listener.
C3_EveryClosureReconnects ==
    (wsState = "closed") ~> (wsState = "open" /\ provider \in swapListeners)

\* the snapshot socket s received
SnapshotOf(s) == inbox[s][CHOOSE i \in 1..Len(inbox[s]) : inbox[s][i].array].data
InLive(s, trade) ==
    \E i \in 1..Len(inbox[s]) : ~inbox[s][i].array /\ inbox[s][i].data[1] = trade

\* C4: a trade that emitNewTrade published while the connection handler of a
\* subscriber was in progress is, for that subscriber, in exactly one of its
\* snapshot and its live messages.
C4_ExactlyOneOfSnapshotOrLive ==
    \A s \in Sockets :
        (sockPc[s] = "served" /\ connected[s]) =>
            \A j \in (attachedAt[s] + 1)..servedAt[s] :
                emitted[j].event = "trades" =>
                    ((emitted[j].data[1] \in Range(SnapshotOf(s)))
                        # InLive(s, emitted[j].data[1]))

\* C5: the first message of every accepted subscriber is one snapshot carrying
\* the trade history as it is when the snapshot is sent, and no second snapshot
\* follows.
C5_OneFullSnapshotFirst ==
    [][ \A s \in Sockets :
          /\ (sockPc[s] # "served" /\ sockPc'[s] = "served" /\ connected'[s]) =>
                /\ Len(inbox'[s]) = 1
                /\ inbox'[s][1].array
                /\ inbox'[s][1].data = tradeBuffer'
          /\ (sockPc[s] = "served" /\ inbox'[s] # inbox[s]) => ~Last(inbox'[s]).array
      ]_vars

\* the sockets of origin ip that were accepted
AcceptedFrom(ip) ==
    { r \in Sockets : sockPc[r] \notin {"init", "rejected"} /\ handshake[r].address = ip }

\* the attach at time t is within the window of the last accepted attach of ip
WithinWindow(ip, t) ==
    \E r \in AcceptedFrom(ip) :
        /\ \A q \in AcceptedFrom(ip) : handshake[q].issued <= handshake[r].issued
        /\ t - handshake[r].issued < DebounceMs

\* C6: an attach less than 5000 ms after the last accepted attach of its origin
\* is rejected (disconnected, no snapshot, recorded time unchanged); any other
\* attach is accepted and its time recorded.
C6_Debounce ==
    [][ \A s \in Sockets :
          (sockPc[s] = "init" /\ sockPc'[s] # "init") =>
              IF WithinWindow(handshake'[s].address, handshake'[s].issued)
              THEN /\ sockPc'[s] = "rejected"
                   /\ ~connected'[s]
                   /\ inbox'[s] = << >>
                   /\ clientLastRequest' = clientLastRequest
              ELSE /\ sockPc'[s] # "rejected"
                   /\ connected'[s]
                   /\ variant = "v1" =>
                        /\ handshake'[s].address \in DOMAIN clientLastRequest'
                        /\ clientLastRequest'[handshake'[s].address] = handshake'[s].issued
      ]_vars

\* C7: a broadcast appends one single-trade message, the trade just put at the
\* front of the history, to the inbox of every attached socket and to no other;
\* no other step delivers or reorders live messages.
C7_FanOutOnceInOrder ==
    [][ IF Published
        THEN /\ emitted' = Append(emitted, Last(emitted'))
             /\ ~Last(emitted').array
             /\ Len(Last(emitted').data) = 1
             /\ InsertsIntoHistory => Head(tradeBuffer') = Last(emitted').data[1]
             /\ \A s \in Sockets :
                    inbox'[s] = IF connected[s] THEN Append(inbox[s], Last(emitted'))
                                ELSE inbox[s]
        ELSE \A s \in Sockets :
                \/ inbox'[s] = inbox[s]
                \/ /\ Len(inbox'[s]) = Len(inbox[s]) + 1
                   /\ Last(inbox'[s]).array
                   /\ SubSeq(inbox'[s], 1, Len(inbox[s])) = inbox[s]
      ]_vars

\* v2: a trade was published after one subscriber had left, and reached the other
C7_Witness ==
    /\ variant = "v2"
    /\ emitted # << >>
    /\ \E gone \in Sockets, here \in Sockets :
          /\ sockPc[gone] = "served" /\ ~connected[gone]
          /\ Len(inbox[gone]) = 1
          /\ Last(emitted).data[1] \notin Range(inbox[gone][1].data)
          /\ connected[here]
          /\ Len(inbox[here]) >= 2
          /\ Last(inbox[here]) = Last(emitted)

\* this step ends the backfill p in its catch block
FetchFails(p) == fetchPc[p] # "failed" /\ fetchPc'[p] = "failed"

\* C9 as stated: when the backfill fails, the history is what it was when the
\* backfill started.
C9_HistoryAsBeforeBackfill ==
    [][ \A p \in Procs : FetchFails(p) => tradeBuffer' = fetchStart[p] ]_vars

\* C9 as amended: the step in which the backfill fails writes neither the
\* history nor trades.json, and the handler that awaited it goes on to serve.
C9_FailedBackfillWritesNothing ==
    [][ \A p \in Procs :
          FetchFails(p) =>
              /\ tradeBuffer' = tradeBuffer
              /\ tradesFile' = tradesFile
              /\ p \in Sockets => sockPc'[p] = "served"
      ]_vars

\* v1: a backfill failed while the history held a live trade, which the
\* snapshot sent right after the failure carries
C9_Witness ==
    /\ variant = "v1"
    /\ \E p \in Sockets :
          /\ fetchPc[p] = "failed"
          /\ sockPc[p] = "served"
          /\ connected[p]
          /\ \E i \in 1..Len(inbox[p]) : inbox[p][i].array /\ inbox[p][i].data # << >>

\* the token and base amounts of raw legs, as the trade carries them
TokenAmount(leg) == parseFloat(formatUnits(leg, OcicatDecimals))
BaseAmount(leg) == parseFloat(formatUnits(leg, BnbDecimals))

\* trade t is the buy (the sell) of raw event raw
IsBuyOf(t, raw) ==
    /\ t.action = "buy"
    /\ t.amount = TokenAmount(raw.amount1Out)
    /\ t.bnbAmount = BaseAmount(raw.amount0In)
IsSellOf(t, raw) ==
    /\ t.action = "sell"
    /\ t.amount = TokenAmount(raw.amount1In)
    /\ t.bnbAmount = BaseAmount(raw.amount0Out)

\* C11: once the Swap callback has run on a raw event, the trade it published is
\* the buy of the event when amount1Out > 0, else its sell when amount1In > 0, and
\* has a token amount and a base amount above 0; nothing is published exactly
\* when neither leg of the token moved or one of these two amounts is 0.
C11_DirectionAndPositiveAmounts ==
    swapHandled > 0 =>
        LET classified == swapIn.amount1Out > 0 \/ swapIn.amount1In > 0
            base == IF swapIn.amount1Out > 0 THEN swapIn.amount0In ELSE swapIn.amount0Out
        IN  /\ (emitted # << >>) <=> (classified /\ base > 0)
            /\ \A i \in 1..Len(emitted) :
                  LET t == emitted[i].data[1]
                  IN  /\ IF swapIn.amount1Out > 0 THEN IsBuyOf(t, swapIn)
                         ELSE IsSellOf(t, swapIn)
                      /\ t.amount.units > 0
                      /\ t.bnbAmount.units > 0
                      /\ t \in Range(tradeBuffer)

\* the callback ran on an event with both token legs above 0 and published a buy
C11_Witness ==
    /\ swapHandled > 0
    /\ swapIn.amount1Out > 0
    /\ swapIn.amount1In > 0
    /\ swapIn.amount0In > 0
    /\ emitted # << >>
    /\ Last(emitted).data[1].action = "buy"

\* this step sends socket s its snapshot
SnapshotSentTo(s) ==
    /\ Len(inbox'[s]) = Len(inbox[s]) + 1
    /\ Last(inbox'[s]).array

InFlight(pc) == pc \in {"awaitBlock", "awaitLogs"}
Completed(pc) == pc \in {"done", "failed"}

\* C12: when a subscriber is sent its snapshot no backfill query is in flight,
\* and if the history is empty a backfill has run to its end.
C12_BackfillBeforeServing ==
    [][ \A s \in Sockets :
          SnapshotSentTo(s) =>
              /\ \A p \in Procs : ~InFlight(fetchPc'[p])
              /\ tradeBuffer' = << >> => \E p \in Procs : Completed(fetchPc'[p])
      ]_vars

\* the value of a field of notification tx, or the fallback when it is missing
FieldOr(tx, field, value, fallback) == IF field \in tx.present THEN value ELSE fallback

\* C13: the handler of an external "transactions:new" notification publishes,
\* once and to every attached socket, one trade with source "external" whose
\* missing fields are defaulted, and puts that trade at the front of tradeBuffer.
C13_ExternalMappedInsertedPublished ==
    [][ \A tx \in ExternalTxs :
          (ExternalTx_v2(tx) \/ ExternalTx_p0(tx)) =>
              LET t == Last(emitted').data[1]
                  details == "tokenDetails" \in tx.present
              IN  /\ emitted' = Append(emitted, Last(emitted'))
                  /\ Last(emitted').data = << t >>
                  /\ \A s \in Sockets :
                        inbox'[s] = IF connected[s] THEN Append(inbox[s], Last(emitted'))
                                    ELSE inbox[s]
                  /\ {"source", "buyer", "amount", "bnbAmount", "action", "ticker",
                      "image"} \subseteq DOMAIN t
                  /\ t.source = "external"
                  /\ t.buyer = FieldOr(tx, "wallet", tx.wallet, "unknown")
                  /\ t.amount = Num(FieldOr(tx, "amountInToken", tx.amountInToken, 0))
                  /\ t.bnbAmount = Num(FieldOr(tx, "amountInChainCurrency",
                                               tx.amountInChainCurrency, 0))
                  /\ t.action = FieldOr(tx, "type", tx.type, "buy")
                  /\ t.ticker = IF details THEN FieldOr(tx, "ticker", tx.ticker, "Unknown")
                                ELSE "Unknown"
                  /\ t.image = IF details
                               THEN FieldOr(tx, "image", tx.image, "/default_token.png")
                               ELSE "/default_token.png"
                  /\ tradeBuffer' # << >>
                  /\ Head(tradeBuffer') = t
      ]_vars

\* C14: in v2 the history in memory is, in every state (at startup and after
\* each insert or backfill merge), the array trades.json holds, or empty when
\* there is no trades.json.
C14_PersistedEqualsMemory ==
    variant = "v2" =>
        tradeBuffer = (IF tradesFile.exists THEN tradesFile.data ELSE << >>)

\* v2 started without trades.json; the backfill merged, and a chain trade and an
\* external trade were inserted, each followed by a save
C14_Witness ==
    /\ variant = "v2"
    /\ fetchStart[0] = << >>
    /\ fetchPc[0] = "done"
    /\ Len(tradeBuffer) = 2
    /\ tradeBuffer[1].source # tradeBuffer[2].source
    /\ tradesFile.exists
    /\ tradesFile.data = tradeBuffer

\* this step is the close of the live upstream connection
UpstreamCloses == wsState = "open" /\ wsState' = "closed"

\* this step replaces the provider
ProviderReplaced == provider' # provider

\* C15: a close of the live upstream connection schedules one reconnect 3000 ms
\* later; the provider is replaced only by that reconnect, not before it is due,
\* by a provider that never existed before and whose contract has a Swap
\* listener.
C15_CloseSchedulesFreshReconnect ==
    [][ /\ UpstreamCloses => reconnectDue' = now + ReconnectDelayMs
        /\ ProviderReplaced =>
              /\ wsState = "closed"
              /\ reconnectDue >= 0
              /\ now >= reconnectDue
              /\ provider' \notin 0..provider
              /\ provider' \in swapListeners'
              /\ wsState' = "open"
      ]_vars

\* the raw event the live listener is handed for the transaction of log
RawOf(log) ==
    [ sender |-> log.sender, amount0In |-> log.amount0In, amount1In |-> log.amount1In,
      amount0Out |-> log.amount0Out, amount1Out |-> log.amount1Out, to |-> log.to,
      log |-> [ present |-> TRUE, transactionHash |-> log.transactionHash ] ]

LiveAccepts(log) == DecodeSwap(RawOf(log)).accepted

\* what the claim compares of a trade
Decoded(t) == << t.action, t.amount, t.bnbAmount >>

\* the history the live decoder yields for the logs a backfill keeps
LiveDecoded(logs) ==
    LET kept == SelectSeq(Slice(SortLogs(logs), BackfillSlice), LiveAccepts)
    IN  [ i \in 1..Len(kept) |-> Decoded(DecodeSwap(RawOf(kept[i])).trade) ]

\* C16: the history a backfill (v1, p0) writes holds, for each log the live
\* decoder accepts, the action and amounts the live decoder gives it, and nothing
\* for a log the live decoder rejects.
C16_BackfillDecodesAsLive ==
    [][ \A p \in Procs, logs \in LogAnswers :
          (variant # "v2" /\ GetLogsResolves(p, logs) /\ fetchPc'[p] = "done") =>
              [ i \in 1..Len(tradeBuffer') |-> Decoded(tradeBuffer'[i]) ] = LiveDecoded(logs)
      ]_vars

\* the log of the answer `logs` with transaction hash h
LogOf(logs, h) == CHOOSE l \in Range(logs) : l.transactionHash = h

\* log a is not older than log b: a higher block, or the same block and no lower index
NotOlder(a, b) ==
    \/ a.blockNumber > b.blockNumber
    \/ a.blockNumber = b.blockNumber /\ a.transactionIndex >= b.transactionIndex

\* C17: when getLogs resolves with at least one log, all of them decodable,
\* the history is then non-empty; its first min(number of logs, 30) entries are
\* the newest logs, ordered by block number descending, then by transaction
\* index descending; and the history is within capacity.
C17_BackfillSortedNonEmpty ==
    [][ \A p \in Procs, logs \in LogAnswers :
          (GetLogsResolves(p, logs) /\ Len(logs) >= 1 /\ ~DecodeThrows(logs)) =>
              LET n == Min(Len(logs), BackfillSlice)
                  hashes == { logs[i].transactionHash : i \in 1..Len(logs) }
              IN  /\ tradeBuffer' # << >>
                  /\ Len(tradeBuffer') >= n
                  /\ Len(tradeBuffer') <= Capacity(variant)
                  /\ \A i \in 1..n : tradeBuffer'[i].hash \in hashes
                  /\ \A i \in 1..n, j \in 1..n :
                        i < j => /\ tradeBuffer'[i].hash # tradeBuffer'[j].hash
                                 /\ NotOlder(LogOf(logs, tradeBuffer'[i].hash),
                                             LogOf(logs, tradeBuffer'[j].hash))
                  /\ \A l \in Range(logs) :
                        (\A i \in 1..n : tradeBuffer'[i].hash # l.transactionHash) =>
                            NotOlder(LogOf(logs, tradeBuffer'[n].hash), l)
      ]_vars

\* the event moves no token, or its token or base amount is 0
Rejected(raw) ==
    \/ raw.amount1Out = 0 /\ raw.amount1In = 0
    \/ raw.amount1Out > 0 /\ raw.amount0In = 0
    \/ raw.amount1Out = 0 /\ raw.amount1In > 0 /\ raw.amount0Out = 0

\* C18: a run of the Swap callback on a rejected event changes neither the
\* history nor trades.json, delivers nothing, and leaves the connection open and
\* its listener attached; a run on any other event, also after rejected ones,
\* puts the decoded trade at the front of the history and publishes it.
C18_RejectedEventIsSkipped ==
    [][ swapHandled' = swapHandled + 1 =>
          IF Rejected(swapIn')
          THEN /\ tradeBuffer' = tradeBuffer
               /\ tradesFile' = tradesFile
               /\ emitted' = emitted
               /\ inbox' = inbox
               /\ wsState' = "open"
               /\ provider' = provider
               /\ provider' \in swapListeners'
          ELSE /\ Published
               /\ Len(emitted') = Len(emitted) + 1
               /\ Head(tradeBuffer') = Last(emitted').data[1]
               /\ IF swapIn'.amount1Out > 0 THEN IsBuyOf(Head(tradeBuffer'), swapIn')
                  ELSE IsSellOf(Head(tradeBuffer'), swapIn')
      ]_vars

\* the callback ran twice: the first event was rejected, the second is in the history
C18_Witness ==
    /\ swapHandled = 2
    /\ ~Rejected(swapIn)
    /\ Len(emitted) = 1
    /\ Head(tradeBuffer) = Last(emitted).data[1]
    /\ provider \in swapListeners

\* the first n entries of buf are logs of the answer `logs`, newest first
BackfilledPrefix(buf, n, logs) ==
    /\ \A i \in 1..n : \E k \in 1..Len(logs) : logs[k].transactionHash = buf[i].hash
    /\ \A i \in 1..n, j \in 1..n :
          i < j => NotOlder(LogOf(logs, buf[i].hash), LogOf(logs, buf[j].hash))

\* C19: the history changes only by a new trade going in front of the entries
\* already there, which keep their order, or by a backfill that leaves its logs
\* newest first and none of them in front of an entry that was there before.
C19_MostRecentFirst ==
    [][ \/ tradeBuffer' = tradeBuffer
        \/ /\ InsertsIntoHistory
           /\ \E k \in 0..Len(tradeBuffer) :
                 tradeBuffer' = << Last(emitted').data[1] >> \o SubSeq(tradeBuffer, 1, k)
        \/ /\ ~Published
           /\ \E p \in Procs : fetchPc[p] = "awaitLogs" /\ fetchPc'[p] = "done"
           /\ \E logs \in LogAnswers :
                 BackfilledPrefix(tradeBuffer', Len(tradeBuffer'), logs)
      ]_vars

\* v1: a backfill completed after a live trade had entered the history, and
\* left two logs, the newer in front
C19_Witness ==
    /\ variant = "v1"
    /\ \E s \in Sockets :
          /\ fetchPc[s] = "done"
          /\ servedAt[s] > attachedAt[s]
          /\ Len(tradeBuffer) = 2
          /\ tradeBuffer[1].hash = 2
          /\ tradeBuffer[2].hash = 1

\* C20: the history holds no event twice: no two of its entries carry the same
\* transaction hash, source, action and amounts.
C20_NoEventTwice ==
    \A i \in 1..Len(tradeBuffer), j \in 1..Len(tradeBuffer) :
        i < j => tradeBuffer[i] # tradeBuffer[j]

\* Len(emitted) when the backfill p was started
StartedAt(p) == IF p = 0 THEN 0 ELSE attachedAt[p]

\* the trades that were inserted into the history since the backfill p started
InsertedDuring(p) ==
    { emitted[j].data[1] :
        j \in { i \in (StartedAt(p) + 1)..Len(emitted) :
                  variant # "p0" \/ emitted[i].event = "trades" } }

\* C21: when a backfill completes, every trade that was inserted into the
\* history while its queries were in flight is in the history, unless the
\* history is then at capacity.
C21_NoLostUpdate ==
    [][ \A p \in Procs :
          (InFlight(fetchPc[p]) /\ Completed(fetchPc'[p])) =>
              \A t \in InsertedDuring(p) :
                  \/ t \in Range(tradeBuffer')
                  \/ Len(tradeBuffer') = Capacity(variant)
      ]_vars

HasSnapshot(box) == \E i \in 1..Len(box) : box[i].array
FirstSnapshot(box) ==
    CHOOSE i \in 1..Len(box) : box[i].array /\ \A j \in 1..(i - 1) : ~box[j].array

\* the client's list after the messages box[i..]: a snapshot replaces it, a
\* live trade is prepended and the list cut to capacity
RECURSIVE Replay(_, _, _)
Replay(box, i, view) ==
    IF i > Len(box) THEN view
    ELSE Replay(box, i + 1,
                IF box[i].array THEN box[i].data
                ELSE Slice(<< box[i].data[1] >> \o view, Capacity(variant)))

\* what a client that starts from its snapshot holds
ClientView(box) == Replay(box, FirstSnapshot(box) + 1, box[FirstSnapshot(box)].data)

\* C22: (v1) after each message delivered to a subscriber that has its
\* snapshot, the list the subscriber holds is the server's history.
C22_ClientViewIsHistory ==
    [][ \A s \in Sockets :
          (variant = "v1" /\ inbox'[s] # inbox[s] /\ HasSnapshot(inbox'[s])) =>
              ClientView(inbox'[s]) = tradeBuffer'
      ]_vars
====
